---- MODULE Spec2Model ----
(***************************************************************************)
(* One run of Syncer.Sync (internal/syncer/syncer.go): hydrate, syncLists, *)
(* syncRatings, syncHistory, against an IMDb client (the source) and a     *)
(* Trakt client (the mirror).  Every external call is one step that the    *)
(* environment lets succeed or fail; `trace` records every external call   *)
(* and every log entry in the order the code issues them.                  *)
(***************************************************************************)
EXTENDS Integers, Sequences, FiniteSets, TLC

VARIABLES
    conf,            \* s.conf: Mode, Lists, Watchlist, Ratings, History
    authless,        \* s.authless
    user,            \* s.user: imdbLists, traktLists, imdbRatings, traktRatings
    imdb,            \* the source service: lists, watchlist, ratings
    trakt,           \* the mirror service: lists (by slug), watchlist, ratings, history
    pc,              \* position of the run in Sync
    err,             \* the error Sync returns (NoErr while none)
    trace,           \* external calls and log entries, in program order
    traktIDMetas,    \* hydrate: traktIDMetas
    delegatedErrors, \* hydrate: delegatedErrors
    errIdx,          \* hydrate: position of the loop over delegatedErrors
    traktLists,      \* hydrate: traktLists returned by traktClient.ListsGet
    pending,         \* syncLists: list ids the range loop has not visited yet
    histIdx,         \* syncHistory: loop index i
    historyToAdd,    \* syncHistory: historyToAdd
    historyToRemove, \* syncHistory: historyToRemove
    diffResult       \* the DiffResult of the last diff, where the diffs are studied alone

vars == <<conf, authless, user, imdb, trakt, pc, err, trace, traktIDMetas,
          delegatedErrors, errIdx, traktLists, pending, histIdx, historyToAdd, historyToRemove,
          diffResult>>

-----------------------------------------------------------------------------
(* Bounds of the model *)

\* at most this many facts (memberships, ratings, history entries, ...) make up
\* the data the two services hold before the run
MaxFacts == 2

Items == {1, 2}

ListIds == {"l1", "l2"}

WatchlistID == "watchlist"

SyncModeFull == "full"

SyncModeAddOnly == "add-only"

SyncModeDryRun == "dry-run"

SyncModes == {SyncModeFull, SyncModeAddOnly, SyncModeDryRun}

NoErr == "none"

\* no diff computed yet
NoDiff == [Add |-> <<>>, Remove |-> <<>>]

-----------------------------------------------------------------------------
(* Sequences and sets *)

RECURSIVE SetToSeq(_)
\* the elements of a finite set of integers in increasing order
SetToSeq(S) ==
    IF S = {} THEN <<>>
    ELSE LET m == CHOOSE x \in S : \A y \in S : x <= y
         IN  <<m>> \o SetToSeq(S \ {m})

Range(s) == {s[i] : i \in 1..Len(s)}

RECURSIVE SubsetsUpTo(_, _)
\* the subsets of S with at most k elements
SubsetsUpTo(S, k) ==
    IF k = 0 THEN {{}}
    ELSE LET smaller == SubsetsUpTo(S, k - 1)
         IN  smaller \cup {T \cup {x} : T \in smaller, x \in S}

-----------------------------------------------------------------------------
(* List names and slugs.  A name is a sequence of characters. *)

NameAB == <<"A", " ", "B">>

NameAb == <<"a", "-", "b">>

NameC == <<"C">>

SlugChar(c) ==
    CASE c = "A" -> "a"
      [] c = "B" -> "b"
      [] c = "C" -> "c"
      [] c = " " -> "-"
      [] OTHER   -> c

\* entities.InferTraktListSlug: lower case, white space to hyphens
InferTraktListSlug(name) == [i \in 1..Len(name) |-> SlugChar(name[i])]

SlugAB == InferTraktListSlug(NameAB)

SlugC == InferTraktListSlug(NameC)

NoName == <<>>

-----------------------------------------------------------------------------
(* The data the two services hold before the run, built from a set of facts. *)
(* A fact is <<kind, key, item>>.                                            *)

TraktItemTypeMovie == "movie"

TraktItemTypeSeason == "season"

UnknownType == "unknown"

ListFacts ==
    {<<"srcList", l, i>> : l \in ListIds, i \in Items}
      \cup {<<"mirList", s, i>> : s \in {"ab", "c"}, i \in Items}
      \cup {<<"mirExists", s, 0>> : s \in {"ab", "c"}}
      \cup {<<"sameSlug", "", 0>>}

WatchlistFacts ==
    {<<"srcWatch", "", i>> : i \in Items} \cup {<<"mirWatch", "", i>> : i \in Items}

RatingFacts ==
    {<<"srcRating", t, i>> : t \in {TraktItemTypeMovie, UnknownType}, i \in Items}
      \cup {<<"mirRating", t, i>> :
              t \in {TraktItemTypeMovie, TraktItemTypeSeason, UnknownType}, i \in Items}

MovieRatingFacts == {f \in RatingFacts : f[2] = TraktItemTypeMovie}

HistoryFacts == {<<"mirHist", "", i>> : i \in Items}

\* the facts a run with this configuration can read: the data of a domain the
\* run never fetches is left empty (ratings are kept for a run with history sync,
\* which is derived from them; their types matter only where they are fetched)
ReadableFacts(c, a) ==
    (IF c.Lists THEN ListFacts ELSE {})
      \cup (IF c.Watchlist /\ ~a THEN WatchlistFacts ELSE {})
      \cup (IF c.Ratings /\ ~a THEN RatingFacts
            ELSE IF c.History /\ ~a THEN MovieRatingFacts ELSE {})
      \cup (IF c.Ratings /\ c.History /\ ~a THEN HistoryFacts ELSE {})

\* each service holds at most one rating per item
WellFormed(F) ==
    \A f \in F, g \in F :
        (f[1] = g[1] /\ f[1] \in {"srcRating", "mirRating"} /\ f[3] = g[3]) => f = g

ListNameOf(F, l) ==
    IF l = "l1" THEN NameAB
    ELSE IF <<"sameSlug", "", 0>> \in F THEN NameAb ELSE NameC

IMDbWorld(F) ==
    [lists |-> {[ListID |-> l, ListName |-> ListNameOf(F, l), IsWatchlist |-> FALSE,
                 Items |-> {i \in Items : <<"srcList", l, i>> \in F}] : l \in ListIds},
     watchlist |-> [ListID |-> WatchlistID, ListName |-> <<"W">>, IsWatchlist |-> TRUE,
                    Items |-> {i \in Items : <<"srcWatch", "", i>> \in F}],
     ratings |-> {[ID |-> f[3], Type |-> f[2]] : f \in {g \in F : g[1] = "srcRating"}}]

TraktWorld(F) ==
    [lists |-> {[Slug |-> sl[2], Items |-> {i \in Items : <<"mirList", sl[1], i>> \in F}] :
                  sl \in {x \in {<<"ab", SlugAB>>, <<"c", SlugC>>} :
                            \/ <<"mirExists", x[1], 0>> \in F
                            \/ \E i \in Items : <<"mirList", x[1], i>> \in F}},
     watchlist |-> {i \in Items : <<"mirWatch", "", i>> \in F},
     ratings |-> {[ID |-> f[3], Type |-> f[2]] : f \in {g \in F : g[1] = "mirRating"}},
     history |-> {i \in Items : <<"mirHist", "", i>> \in F}]

Configs ==
    [Mode : SyncModes, Lists : BOOLEAN, Watchlist : BOOLEAN, Ratings : BOOLEAN,
     History : BOOLEAN]

-----------------------------------------------------------------------------
(* s.user: the four maps, each a set of records with distinct keys *)

\* NewSyncer, lines 42-60
NewUser(c) ==
    [imdbLists |-> IF c.Lists \/ c.Watchlist
                   THEN {[ListID |-> l, ListName |-> NoName, IsWatchlist |-> FALSE,
                          Items |-> {}] : l \in ListIds}
                   ELSE {},
     traktLists |-> {},
     imdbRatings |-> {},
     traktRatings |-> {}]

\* m[key] = val on a map of lists keyed by ListID
PutList(m, val) == {x \in m : x.ListID # val.ListID} \cup {val}

\* m[key] = val on a map of Trakt lists keyed by IDMeta.IMDb
PutTraktList(m, val) == {x \in m : x.IMDb # val.IMDb} \cup {val}

\* m[key] = val on a map of rating items keyed by ID
PutItem(m, val) == {x \in m : x.ID # val.ID} \cup {val}

\* s.user.traktLists[lid]: the zero value when the key is absent
TraktListOf(m, lid) ==
    IF \E x \in m : x.IMDb = lid
    THEN CHOOSE x \in m : x.IMDb = lid
    ELSE [IMDb |-> lid, Slug |-> NoName, Items |-> {}]

-----------------------------------------------------------------------------
(* The trace *)

\* stage: the stage of Sync that issues the entry; op: the client operation, or
\* "log:..." for a log entry; list: the IMDb list the entry is about; target: the
\* slug it addresses; name: the list name passed; items: the payload; ok: whether
\* the call succeeded; found: whether a history lookup returned entries
Entry(stage, op, list, target, name, items, ok) ==
    [stage |-> stage, op |-> op, list |-> list, target |-> target, name |-> name,
     items |-> items, ok |-> ok, found |-> FALSE]

Call(stage, op, ok) == Entry(stage, op, "", NoName, NoName, <<>>, ok)

Log(stage, op) == Entry(stage, op, "", NoName, NoName, <<>>, TRUE)

-----------------------------------------------------------------------------
(* Syncer.Sync *)

\* a mutant of FirstPc: hydrate fetches without triggering the exports first
FirstPcWithoutExports(stage) ==
    CASE stage = "hydrate"     -> "ListsGet"
      [] stage = "syncLists"   -> "syncLists"
      [] stage = "syncRatings" -> "syncRatings"
      [] stage = "syncHistory" -> "syncHistory"
      [] OTHER                 -> "done"

\* Sync and hydrate: the first step of a stage
FirstPc(stage) ==
    CASE stage = "hydrate"     -> "RatingsExport"
      [] stage = "syncLists"   -> "syncLists"
      [] stage = "syncRatings" -> "syncRatings"
      [] stage = "syncHistory" -> "syncHistory"
      [] OTHER                 -> "done"

NextStage(stage) ==
    CASE stage = "hydrate"     -> "syncLists"
      [] stage = "syncLists"   -> "syncRatings"
      [] stage = "syncRatings" -> "syncHistory"
      [] OTHER                 -> "completed"

\* a mutant of AfterStage: the stage's error is not checked
AfterStageIgnoringError(stage, e) == FirstPc(NextStage(stage))

\* Sync, lines 66-83: where the run goes when a stage returns the error e
AfterStage(stage, e) == IF e # NoErr THEN "done" ELSE FirstPc(NextStage(stage))

\* Sync, lines 66-83: what Sync logs when a stage returns the error e
AfterStageLog(stage, e) ==
    IF e # NoErr THEN <<Log("Sync", "log:failure " \o stage)>>
    ELSE IF NextStage(stage) = "completed" THEN <<Log("Sync", "log:sync completed")>>
    ELSE <<>>

\* the stage returns e (NoErr for nil) after the entries es
Return(stage, e, es) ==
    /\ pc' = AfterStage(stage, e)
    /\ err' = IF err = NoErr THEN e ELSE err
    /\ trace' = trace \o es \o AfterStageLog(stage, e)

\* the stage goes on at p after the entries es
Goto(p, es) ==
    /\ pc' = p
    /\ trace' = trace \o es
    /\ UNCHANGED err

Init ==
    /\ conf \in Configs
    /\ authless \in BOOLEAN
    /\ \E F \in SubsetsUpTo(ReadableFacts(conf, authless), MaxFacts) :
        /\ WellFormed(F)
        /\ imdb = IMDbWorld(F)
        /\ trakt = TraktWorld(F)
    /\ user = NewUser(conf)
    /\ pc = "start"
    /\ err = NoErr
    /\ trace = <<>>
    /\ traktIDMetas = <<>>
    /\ delegatedErrors = <<>>
    /\ errIdx = 0
    /\ traktLists = {}
    /\ pending = {}
    /\ histIdx = 0
    /\ historyToAdd = <<>>
    /\ historyToRemove = <<>>
    /\ diffResult = NoDiff

hydrateLocals == <<traktIDMetas, delegatedErrors, errIdx, traktLists>>

syncLocals == <<pending, histIdx, historyToAdd, historyToRemove>>

config == <<conf, authless, imdb>>

\* Sync, lines 64-66
SyncStart ==
    /\ pc = "start"
    /\ Goto(FirstPc("hydrate"), <<Log("Sync", "log:sync started")>>)
    /\ UNCHANGED <<config, diffResult, user, trakt, hydrateLocals, syncLocals>>

-----------------------------------------------------------------------------
(* Syncer.hydrate *)

\* a mutant of SuppressesCreate: no mode creates the missing list
SuppressesCreateAlways(mode) == TRUE

\* a mutant of SuppressesCreate: list creation is not gated by the mode
SuppressesCreateNever(mode) == FALSE

\* hydrate, line 125: the modes in which a missing Trakt list is not created
SuppressesCreate(mode) == mode = SyncModeDryRun

\* hydrate, lines 91-95
HydrateRatingsExport ==
    /\ pc = "RatingsExport"
    /\ IF conf.Ratings
       THEN \E ok \in BOOLEAN :
            IF ok THEN Goto("ListsExport", <<Call("hydrate", "IMDb.RatingsExport", TRUE)>>)
            ELSE Return("hydrate", "failure exporting imdb ratings",
                        <<Call("hydrate", "IMDb.RatingsExport", FALSE)>>)
       ELSE Goto("ListsExport", <<>>)
    /\ UNCHANGED <<config, diffResult, user, trakt, hydrateLocals, syncLocals>>

\* hydrate, lines 96-100
HydrateListsExport ==
    /\ pc = "ListsExport"
    /\ IF conf.Lists
       THEN \E ok \in BOOLEAN :
            IF ok THEN Goto("WatchlistExport", <<Call("hydrate", "IMDb.ListsExport", TRUE)>>)
            ELSE Return("hydrate", "failure exporting imdb lists",
                        <<Call("hydrate", "IMDb.ListsExport", FALSE)>>)
       ELSE Goto("WatchlistExport", <<>>)
    /\ UNCHANGED <<config, diffResult, user, trakt, hydrateLocals, syncLocals>>

\* hydrate, lines 101-105
HydrateWatchlistExport ==
    /\ pc = "WatchlistExport"
    /\ IF conf.Watchlist
       THEN \E ok \in BOOLEAN :
            IF ok THEN Goto("ListsGet", <<Call("hydrate", "IMDb.WatchlistExport", TRUE)>>)
            ELSE Return("hydrate", "failure exporting imdb watchlist",
                        <<Call("hydrate", "IMDb.WatchlistExport", FALSE)>>)
       ELSE Goto("ListsGet", <<>>)
    /\ UNCHANGED <<config, diffResult, user, trakt, hydrateLocals, syncLocals>>

\* imdbClient.ListsGet: the requested lists, in the order of their ids
IMDbListsGet(lids) ==
    LET ids == SetToSeq({IF l = "l1" THEN 1 ELSE 2 : l \in lids})
        lid(n) == IF n = 1 THEN "l1" ELSE "l2"
    IN  [k \in 1..Len(ids) |-> CHOOSE x \in imdb.lists : x.ListID = lid(ids[k])]

RECURSIVE PutLists(_, _)
\* hydrate, lines 112-113: s.user.imdbLists[imdbList.ListID] = imdbList for each list
PutLists(m, lists) ==
    IF lists = <<>> THEN m ELSE PutLists(PutList(m, Head(lists)), Tail(lists))

\* hydrate, lines 111-119
TraktIDMetasOf(lists) ==
    [k \in 1..Len(lists) |->
        [IMDb |-> lists[k].ListID, Slug |-> InferTraktListSlug(lists[k].ListName),
         ListName |-> lists[k].ListName]]

\* hydrate, lines 106-119
HydrateIMDbListsGet ==
    /\ pc = "ListsGet"
    /\ IF conf.Lists
       THEN \E ok \in BOOLEAN :
            IF ok
            THEN LET imdbLists == IMDbListsGet({x.ListID : x \in user.imdbLists})
                 IN  /\ user' = [user EXCEPT !.imdbLists = PutLists(@, imdbLists)]
                     /\ traktIDMetas' = TraktIDMetasOf(imdbLists)
                     /\ Goto("TraktListsGet", <<Call("hydrate", "IMDb.ListsGet", TRUE)>>)
            ELSE /\ Return("hydrate", "failure fetching imdb lists",
                           <<Call("hydrate", "IMDb.ListsGet", FALSE)>>)
                 /\ UNCHANGED <<user, traktIDMetas>>
       ELSE /\ Goto("WatchlistGet", <<>>)
            /\ UNCHANGED <<user, traktIDMetas>>
    /\ UNCHANGED <<config, diffResult, trakt, delegatedErrors, errIdx, traktLists, syncLocals>>

\* traktClient.ListsGet: per correspondence, the list with that slug, a not-found
\* error carrying the slug, or (for the correspondence `bad`) another error
TraktListsGetResult(metas, bad) ==
    [k \in 1..Len(metas) |->
        IF k = bad THEN [kind |-> "other", Slug |-> NoName, IMDb |-> "", Items |-> {}]
        ELSE IF \E x \in trakt.lists : x.Slug = metas[k].Slug
        THEN [kind |-> "found", Slug |-> metas[k].Slug, IMDb |-> metas[k].IMDb,
              Items |-> (CHOOSE x \in trakt.lists : x.Slug = metas[k].Slug).Items]
        ELSE [kind |-> "notfound", Slug |-> metas[k].Slug, IMDb |-> "", Items |-> {}]]

\* hydrate, line 120
HydrateTraktListsGet ==
    /\ pc = "TraktListsGet"
    /\ \E bad \in 0..Len(traktIDMetas) :
        LET res == TraktListsGetResult(traktIDMetas, bad)
        IN  /\ traktLists' = {[IMDb |-> r.IMDb, Slug |-> r.Slug, Items |-> r.Items] :
                                r \in {x \in Range(res) : x.kind = "found"}}
            /\ delegatedErrors' = SelectSeq(res, LAMBDA r : r.kind # "found")
            /\ errIdx' = 1
            /\ Goto("delegatedErrors", <<Call("hydrate", "ListsGet", bad = 0)>>)
    /\ UNCHANGED <<config, diffResult, user, trakt, traktIDMetas, syncLocals>>

\* TraktIDMetas.GetListNameFromSlug: the name of the first correspondence with the slug
GetListNameFromSlug(metas, slug) ==
    IF \E k \in 1..Len(metas) : metas[k].Slug = slug
    THEN metas[CHOOSE k \in 1..Len(metas) :
                 /\ metas[k].Slug = slug
                 /\ \A j \in 1..(k - 1) : metas[j].Slug # slug].ListName
    ELSE NoName

\* traktClient.ListAdd: the mirror has an empty list with the slug afterwards
TraktListAdd(lists, slug) ==
    IF \E x \in lists : x.Slug = slug THEN lists
    ELSE lists \cup {[Slug |-> slug, Items |-> {}]}

\* hydrate, lines 121-136: one iteration of the loop over delegatedErrors
HydrateDelegatedError ==
    /\ pc = "delegatedErrors"
    /\ errIdx <= Len(delegatedErrors)
    /\ LET e == delegatedErrors[errIdx]
           listName == GetListNameFromSlug(traktIDMetas, e.Slug)
           create(ok) == Entry("hydrate", "ListAdd", "", e.Slug, listName, <<>>, ok)
       IN  IF e.kind = "notfound"
           THEN IF SuppressesCreate(conf.Mode)
                THEN /\ Goto("delegatedErrors",
                             <<Entry("hydrate", "log:would have created trakt list",
                                     "", e.Slug, listName, <<>>, TRUE)>>)
                     /\ errIdx' = errIdx + 1
                     /\ UNCHANGED trakt
                ELSE \E ok \in BOOLEAN :
                     IF ok
                     THEN /\ trakt' = [trakt EXCEPT !.lists = TraktListAdd(@, e.Slug)]
                          /\ errIdx' = errIdx + 1
                          /\ Goto("delegatedErrors", <<create(TRUE)>>)
                     ELSE /\ Return("hydrate", "failure creating trakt list",
                                    <<create(FALSE)>>)
                          /\ UNCHANGED <<trakt, errIdx>>
           ELSE /\ Return("hydrate", "failure hydrating trakt lists", <<>>)
                /\ UNCHANGED <<trakt, errIdx>>
    /\ UNCHANGED <<config, diffResult, user, traktIDMetas, delegatedErrors, traktLists, syncLocals>>

RECURSIVE PutTraktLists(_, _)
\* hydrate, lines 137-139
PutTraktLists(m, lists) ==
    IF lists = {} THEN m
    ELSE LET x == CHOOSE y \in lists : TRUE
         IN  PutTraktLists(PutTraktList(m, x), lists \ {x})

\* hydrate, lines 137-140: after the loop over delegatedErrors
HydrateTraktListsStore ==
    /\ pc = "delegatedErrors"
    /\ errIdx > Len(delegatedErrors)
    /\ user' = [user EXCEPT !.traktLists = PutTraktLists(@, traktLists)]
    /\ Goto("WatchlistGet", <<>>)
    /\ UNCHANGED <<config, diffResult, trakt, hydrateLocals, syncLocals>>

\* a mutant of AuthlessReturn: hydrate does not stop for a run without credentials
AuthlessReturnNever(a) == FALSE

\* hydrate, lines 141-143: whether hydrate returns before the watchlist and ratings
AuthlessReturn(a) == a

\* hydrate, lines 141-149
HydrateIMDbWatchlistGet ==
    /\ pc = "WatchlistGet"
    /\ IF AuthlessReturn(authless)
       THEN /\ Return("hydrate", NoErr, <<>>)
            /\ UNCHANGED user
       ELSE IF conf.Watchlist
       THEN \E ok \in BOOLEAN :
            IF ok
            THEN /\ user' = [user EXCEPT !.imdbLists = PutList(@, imdb.watchlist)]
                 /\ Goto("TraktWatchlistGet", <<Call("hydrate", "IMDb.WatchlistGet", TRUE)>>)
            ELSE /\ Return("hydrate", "failure fetching imdb watchlist",
                           <<Call("hydrate", "IMDb.WatchlistGet", FALSE)>>)
                 /\ UNCHANGED user
       ELSE /\ Goto("RatingsGet", <<>>)
            /\ UNCHANGED user
    /\ UNCHANGED <<config, diffResult, trakt, hydrateLocals, syncLocals>>

\* hydrate, lines 150-155
HydrateTraktWatchlistGet ==
    /\ pc = "TraktWatchlistGet"
    /\ \E ok \in BOOLEAN :
        IF ok
        THEN /\ user' = [user EXCEPT !.traktLists =
                            PutTraktList(@, [IMDb |-> imdb.watchlist.ListID, Slug |-> NoName,
                                             Items |-> trakt.watchlist])]
             /\ Goto("RatingsGet", <<Call("hydrate", "WatchlistGet", TRUE)>>)
        ELSE /\ Return("hydrate", "failure fetching trakt watchlist",
                       <<Call("hydrate", "WatchlistGet", FALSE)>>)
             /\ UNCHANGED user
    /\ UNCHANGED <<config, diffResult, trakt, hydrateLocals, syncLocals>>

\* TraktItem.GetItemID: the identifier (a pointer: <<id>>, or <<>> for nil) and
\* whether the call returns an error
GetItemID(item) ==
    CASE item.Type = TraktItemTypeMovie  -> [id |-> <<item.ID>>, err |-> FALSE]
      [] item.Type = TraktItemTypeSeason -> [id |-> <<>>, err |-> FALSE]
      [] OTHER                           -> [id |-> <<>>, err |-> TRUE]

RECURSIVE ItemsToSeq(_)
\* the items of a set in the order of their identifiers
ItemsToSeq(S) ==
    IF S = {} THEN <<>>
    ELSE LET x == CHOOSE y \in S : \A z \in S : y.ID <= z.ID
         IN  <<x>> \o ItemsToSeq(S \ {x})

\* traktClient.RatingsGet: the mirror's ratings, in the order of their items
TraktRatingsGet == ItemsToSeq(trakt.ratings)

RECURSIVE StoreTraktRatings(_, _)
\* hydrate, lines 161-169: the map after the loop, and whether the loop returned an error
StoreTraktRatings(m, ratings) ==
    IF ratings = <<>> THEN [map |-> m, err |-> FALSE]
    ELSE LET r == GetItemID(Head(ratings))
         IN  IF r.err THEN [map |-> m, err |-> TRUE]
             ELSE IF r.id # <<>>
             THEN StoreTraktRatings(PutItem(m, [ID |-> r.id[1], Type |-> Head(ratings).Type]),
                                    Tail(ratings))
             ELSE StoreTraktRatings(m, Tail(ratings))

\* a mutant of FetchesRatings: the ratings are also fetched for history sync
FetchesRatingsForHistory(c) == c.Ratings \/ c.History

\* hydrate, line 156: whether the ratings of the two services are fetched
FetchesRatings(c) == c.Ratings

\* hydrate, lines 156-169
HydrateTraktRatingsGet ==
    /\ pc = "RatingsGet"
    /\ IF FetchesRatings(conf)
       THEN \E ok \in BOOLEAN :
            IF ok
            THEN LET res == StoreTraktRatings(user.traktRatings, TraktRatingsGet)
                 IN  /\ user' = [user EXCEPT !.traktRatings = res.map]
                     /\ IF res.err
                        THEN Return("hydrate", "failure fetching trakt item id",
                                    <<Call("hydrate", "RatingsGet", TRUE)>>)
                        ELSE Goto("IMDbRatingsGet", <<Call("hydrate", "RatingsGet", TRUE)>>)
            ELSE /\ Return("hydrate", "failure fetching trakt ratings",
                           <<Call("hydrate", "RatingsGet", FALSE)>>)
                 /\ UNCHANGED user
       ELSE /\ Return("hydrate", NoErr, <<>>)
            /\ UNCHANGED user
    /\ UNCHANGED <<config, diffResult, trakt, hydrateLocals, syncLocals>>

\* hydrate, lines 170-178
HydrateIMDbRatingsGet ==
    /\ pc = "IMDbRatingsGet"
    /\ \E ok \in BOOLEAN :
        IF ok
        THEN /\ user' = [user EXCEPT !.imdbRatings = imdb.ratings]
             /\ Return("hydrate", NoErr, <<Call("hydrate", "IMDb.RatingsGet", TRUE)>>)
        ELSE /\ Return("hydrate", "failure fetching imdb ratings",
                       <<Call("hydrate", "IMDb.RatingsGet", FALSE)>>)
             /\ UNCHANGED user
    /\ UNCHANGED <<config, diffResult, trakt, hydrateLocals, syncLocals>>

Hydrate ==
    \/ HydrateRatingsExport
    \/ HydrateListsExport
    \/ HydrateWatchlistExport
    \/ HydrateIMDbListsGet
    \/ HydrateTraktListsGet
    \/ HydrateDelegatedError
    \/ HydrateTraktListsStore
    \/ HydrateIMDbWatchlistGet
    \/ HydrateTraktWatchlistGet
    \/ HydrateTraktRatingsGet
    \/ HydrateIMDbRatingsGet

-----------------------------------------------------------------------------
(* The mode gate *)

\* a mutant of SuppressesAdd: add-only holds back additions as well
SuppressesAddInAddOnly(mode) == mode = SyncModeDryRun \/ mode = SyncModeAddOnly

\* a mutant of SuppressesAdd: dry-run does not hold back additions
SuppressesAddNever(mode) == FALSE

\* lines 195, 218, 252, 304: the modes in which an Add set is logged, not applied
SuppressesAdd(mode) == mode = SyncModeDryRun

\* a mutant of SuppressesRemove: add-only is not checked
SuppressesRemoveDryRunOnly(mode) == mode = SyncModeDryRun

\* lines 205, 228, 262, 331: the modes in which a Remove set is logged, not applied
SuppressesRemove(mode) == mode = SyncModeDryRun \/ mode = SyncModeAddOnly

-----------------------------------------------------------------------------
(* Syncer.syncLists *)

\* entities.ListDiff: Add are the items of the IMDb list missing from the Trakt
\* list, Remove the items of the Trakt list missing from the IMDb list
ListDiff(imdbList, traktList) ==
    [Add |-> SetToSeq(imdbList.Items \ traktList.Items),
     Remove |-> SetToSeq(traktList.Items \ imdbList.Items)]

\* a mutant of DiffOfList: the two lists are passed the other way round
DiffOfListSwapped(imdbList) ==
    ListDiff(TraktListOf(user.traktLists, imdbList.ListID), imdbList)

\* syncLists, line 192: the diff of an IMDb list and the Trakt list stored under its id
DiffOfList(imdbList) == ListDiff(imdbList, TraktListOf(user.traktLists, imdbList.ListID))

\* syncLists, lines 182-190
SyncListsSkip ==
    /\ pc = "syncLists"
    /\ LET es == (IF ~conf.Watchlist
                  THEN <<Log("syncLists", "log:skipping watchlist sync")>> ELSE <<>>)
                 \o (IF ~conf.Lists
                     THEN <<Log("syncLists", "log:skipping lists sync")>> ELSE <<>>)
       IN  IF (~conf.Watchlist /\ ~conf.Lists) \/ user.imdbLists = {}
           THEN /\ Return("syncLists", NoErr, es)
                /\ UNCHANGED pending
           ELSE /\ Goto("syncListsLoop", es)
                /\ pending' = {x.ListID : x \in user.imdbLists}
    /\ UNCHANGED <<config, diffResult, user, trakt, hydrateLocals, histIdx, historyToAdd, historyToRemove>>

\* traktClient.ListItemsAdd / WatchlistItemsAdd on the mirror
TraktItemsAdd(t, imdbList, slug, items) ==
    IF imdbList.IsWatchlist THEN [t EXCEPT !.watchlist = @ \cup items]
    ELSE [t EXCEPT !.lists = {IF x.Slug = slug THEN [x EXCEPT !.Items = @ \cup items] ELSE x :
                                x \in @}]

\* traktClient.ListItemsRemove / WatchlistItemsRemove on the mirror
TraktItemsRemove(t, imdbList, slug, items) ==
    IF imdbList.IsWatchlist THEN [t EXCEPT !.watchlist = @ \ items]
    ELSE [t EXCEPT !.lists = {IF x.Slug = slug THEN [x EXCEPT !.Items = @ \ items] ELSE x :
                                x \in @}]

\* a mutant of WatchlistBranch: the watchlist is handled like a named list
WatchlistBranchNever(imdbList) == FALSE

\* syncLists, line 193: whether the iteration takes the branch of the watchlist
WatchlistBranch(imdbList) == imdbList.IsWatchlist

\* syncLists, lines 192-236: the body of the loop for one list, when the add call
\* (if made) succeeds or not and the remove call (if made) succeeds or not:
\* the entries, the error returned (NoErr when the loop goes on), the mirror
ListIteration(imdbList, addOk, removeOk) ==
    LET diff == DiffOfList(imdbList)
        wl == WatchlistBranch(imdbList)
        slug == IF wl THEN NoName ELSE InferTraktListSlug(imdbList.ListName)
        e(op, items, ok) == Entry("syncLists", op, imdbList.ListID, slug, NoName, items, ok)
        addOp == IF wl THEN "WatchlistItemsAdd" ELSE "ListItemsAdd"
        removeOp == IF wl THEN "WatchlistItemsRemove" ELSE "ListItemsRemove"
        added == TraktItemsAdd(trakt, imdbList, slug, Range(diff.Add))
        afterAdd ==
            IF Len(diff.Add) > 0
            THEN IF SuppressesAdd(conf.Mode)
                 THEN [es |-> <<e("log:would have added", diff.Add, TRUE)>>, err |-> NoErr,
                       trakt |-> trakt, continue |-> TRUE]
                 ELSE IF addOk
                 THEN [es |-> <<e(addOp, diff.Add, TRUE)>>, err |-> NoErr, trakt |-> added,
                       continue |-> FALSE]
                 ELSE [es |-> <<e(addOp, diff.Add, FALSE)>>,
                       err |-> "failure adding items to trakt list", trakt |-> trakt,
                       continue |-> TRUE]
            ELSE [es |-> <<>>, err |-> NoErr, trakt |-> trakt, continue |-> FALSE]
    IN  IF afterAdd.continue \/ Len(diff.Remove) = 0
        THEN afterAdd
        ELSE IF SuppressesRemove(conf.Mode)
        THEN [afterAdd EXCEPT !.es = @ \o <<e("log:would have deleted", diff.Remove, TRUE)>>]
        ELSE IF removeOk
        THEN [afterAdd EXCEPT !.es = @ \o <<e(removeOp, diff.Remove, TRUE)>>,
                              !.trakt = TraktItemsRemove(@, imdbList, slug, Range(diff.Remove))]
        ELSE [afterAdd EXCEPT !.es = @ \o <<e(removeOp, diff.Remove, FALSE)>>,
                              !.err = "failure removing items from trakt list"]

\* a mutant of LoopEnds: a failure on one list does not end the loop
LoopEndsIgnoringError(e, rest) == rest = {}

\* syncLists, lines 201, 211, 224, 234 and 238: the loop ends when a call of the
\* iteration has failed with e, or when no list is left
LoopEnds(e, rest) == e # NoErr \/ rest = {}

\* syncLists, lines 191-238: one iteration of the loop over s.user.imdbLists, in
\* the order the map yields
SyncListsIteration ==
    /\ pc = "syncListsLoop"
    /\ \E l \in pending, addOk \in BOOLEAN, removeOk \in BOOLEAN :
        LET imdbList == CHOOSE x \in user.imdbLists : x.ListID = l
            r == ListIteration(imdbList, addOk, removeOk)
        IN  /\ pending' = pending \ {l}
            /\ trakt' = r.trakt
            /\ IF LoopEnds(r.err, pending')
               THEN Return("syncLists", r.err, r.es)
               ELSE Goto("syncListsLoop", r.es)
    /\ UNCHANGED <<config, diffResult, user, hydrateLocals, histIdx, historyToAdd, historyToRemove>>

-----------------------------------------------------------------------------
(* Syncer.syncRatings *)

\* entities.ItemsDifference: Add are the IMDb ratings whose key is missing from the
\* Trakt ratings, Remove the Trakt ratings whose key is missing from the IMDb ratings
ItemsDifference(imdbRatings, traktRatings) ==
    LET add == {x.ID : x \in imdbRatings} \ {x.ID : x \in traktRatings}
        remove == {x.ID : x \in traktRatings} \ {x.ID : x \in imdbRatings}
        addSeq == SetToSeq(add)
        removeSeq == SetToSeq(remove)
    IN  [Add |-> [k \in 1..Len(addSeq) |-> CHOOSE x \in imdbRatings : x.ID = addSeq[k]],
         Remove |-> [k \in 1..Len(removeSeq) |->
                        CHOOSE x \in traktRatings : x.ID = removeSeq[k]]]

\* a mutant of RatingsDiff: the diff is taken against the mirror as it is now
RatingsDiffOfMirror == ItemsDifference(user.imdbRatings, trakt.ratings)

\* syncRatings, line 250, and syncHistory, line 286: the diff of the two rating maps
RatingsDiff == ItemsDifference(user.imdbRatings, user.traktRatings)

\* the identifiers of a sequence of items
IDs(items) == [k \in 1..Len(items) |-> items[k].ID]

RatingsEntry(stage, op, items, ok) == Entry(stage, op, "", NoName, NoName, IDs(items), ok)

\* traktClient.RatingsAdd on the mirror
TraktRatingsAdd(t, items) ==
    [t EXCEPT !.ratings = {x \in @ : GetItemID(x).id = <<>>
                                       \/ x.ID \notin {y.ID : y \in Range(items)}}
                            \cup {[ID |-> y.ID, Type |-> TraktItemTypeMovie] : y \in Range(items)}]

\* traktClient.RatingsRemove on the mirror
TraktRatingsRemove(t, items) ==
    [t EXCEPT !.ratings = {x \in @ : GetItemID(x).id = <<>>
                                       \/ x.ID \notin {y.ID : y \in Range(items)}}]

\* syncRatings, lines 242-260
SyncRatingsAdd ==
    /\ pc = "syncRatings"
    /\ LET diff == RatingsDiff
       IN  IF authless
           THEN /\ Return("syncRatings", NoErr,
                          <<Log("syncRatings", "log:skipping ratings sync: no imdb auth")>>)
                /\ UNCHANGED trakt
           ELSE IF ~conf.Ratings
           THEN /\ Return("syncRatings", NoErr,
                          <<Log("syncRatings", "log:skipping ratings sync")>>)
                /\ UNCHANGED trakt
           ELSE IF Len(diff.Add) > 0
           THEN IF SuppressesAdd(conf.Mode)
                THEN /\ Goto("syncRatingsRemove",
                             <<RatingsEntry("syncRatings", "log:would have added", diff.Add,
                                            TRUE)>>)
                     /\ UNCHANGED trakt
                ELSE \E ok \in BOOLEAN :
                     IF ok
                     THEN /\ trakt' = TraktRatingsAdd(trakt, diff.Add)
                          /\ Goto("syncRatingsRemove",
                                  <<RatingsEntry("syncRatings", "RatingsAdd", diff.Add, TRUE)>>)
                     ELSE /\ Return("syncRatings", "failure adding trakt ratings",
                                    <<RatingsEntry("syncRatings", "RatingsAdd", diff.Add,
                                                   FALSE)>>)
                          /\ UNCHANGED trakt
           ELSE /\ Goto("syncRatingsRemove", <<>>)
                /\ UNCHANGED trakt
    /\ UNCHANGED <<config, diffResult, user, hydrateLocals, syncLocals>>

\* syncRatings, lines 261-271
SyncRatingsRemove ==
    /\ pc = "syncRatingsRemove"
    /\ LET diff == RatingsDiff
       IN  IF Len(diff.Remove) > 0
           THEN IF SuppressesRemove(conf.Mode)
                THEN /\ Return("syncRatings", NoErr,
                               <<RatingsEntry("syncRatings", "log:would have deleted",
                                              diff.Remove, TRUE)>>)
                     /\ UNCHANGED trakt
                ELSE \E ok \in BOOLEAN :
                     IF ok
                     THEN /\ trakt' = TraktRatingsRemove(trakt, diff.Remove)
                          /\ Return("syncRatings", NoErr,
                                    <<RatingsEntry("syncRatings", "RatingsRemove", diff.Remove,
                                                   TRUE)>>)
                     ELSE /\ Return("syncRatings", "failure removing trakt ratings",
                                    <<RatingsEntry("syncRatings", "RatingsRemove", diff.Remove,
                                                   FALSE)>>)
                          /\ UNCHANGED trakt
           ELSE /\ Return("syncRatings", NoErr, <<>>)
                /\ UNCHANGED trakt
    /\ UNCHANGED <<config, diffResult, user, hydrateLocals, syncLocals>>

-----------------------------------------------------------------------------
(* Syncer.syncHistory *)

HistoryGetEntry(id, ok, found) ==
    [Entry("syncHistory", "HistoryGet", "", NoName, NoName, <<id>>, ok) EXCEPT !.found = found]

\* syncHistory, lines 275-286
SyncHistoryStart ==
    /\ pc = "syncHistory"
    /\ IF authless
       THEN Return("syncHistory", NoErr,
                   <<Log("syncHistory", "log:skipping history sync: no imdb auth")>>)
       ELSE IF ~conf.History
       THEN Return("syncHistory", NoErr, <<Log("syncHistory", "log:skipping history sync")>>)
       ELSE Goto("historyAdd", <<>>)
    /\ histIdx' = 1
    /\ UNCHANGED <<config, diffResult, user, trakt, hydrateLocals, pending, historyToAdd, historyToRemove>>

\* a mutant of HistoryLookup: the result of the lookup is not looked at
HistoryLookupKeepAll(items, batch, keep, getOk) ==
    LET item == items[histIdx]
    IN  [es |-> <<HistoryGetEntry(item.ID, TRUE, item.ID \in trakt.history)>>, err |-> NoErr,
         batch |-> Append(batch, item)]

\* a mutant of HistoryLookup: a failed lookup skips the item and the loop goes on
HistoryLookupSkippingFailure(items, batch, keep, getOk) ==
    LET item == items[histIdx]
        r == GetItemID(item)
        found == item.ID \in trakt.history
    IN  IF r.err \/ r.id = <<>>
        THEN [es |-> <<>>, err |-> NoErr, batch |-> batch]
        ELSE IF ~getOk
        THEN [es |-> <<HistoryGetEntry(r.id[1], FALSE, FALSE)>>, err |-> NoErr, batch |-> batch]
        ELSE [es |-> <<HistoryGetEntry(r.id[1], TRUE, found)>>, err |-> NoErr,
              batch |-> IF found = keep THEN Append(batch, item) ELSE batch]

\* the step of a loop of syncHistory over items[histIdx], lines 289-302 and 316-329:
\* keep says whether an item with (found = TRUE) or without history joins the batch
HistoryLookup(items, batch, keep, getOk) ==
    LET item == items[histIdx]
        r == GetItemID(item)
        found == item.ID \in trakt.history
    IN  IF r.err
        THEN [es |-> <<>>, err |-> "failure fetching trakt item id", batch |-> batch]
        ELSE IF r.id = <<>>
        THEN [es |-> <<>>, err |-> "nil pointer dereference", batch |-> batch]
        ELSE IF ~getOk
        THEN [es |-> <<HistoryGetEntry(r.id[1], FALSE, FALSE)>>,
              err |-> "failure fetching trakt history", batch |-> batch]
        ELSE [es |-> <<HistoryGetEntry(r.id[1], TRUE, found)>>, err |-> NoErr,
              batch |-> IF found = keep THEN Append(batch, item) ELSE batch]

\* syncHistory, lines 287-302: one iteration of the loop over diff.Add
SyncHistoryAddLookup ==
    /\ pc = "historyAdd"
    /\ LET diff == RatingsDiff
       IN  /\ histIdx <= Len(diff.Add)
           /\ \E getOk \in BOOLEAN :
               LET r == HistoryLookup(diff.Add, historyToAdd, FALSE, getOk)
               IN  /\ historyToAdd' = r.batch
                   /\ IF r.err # NoErr
                      THEN /\ Return("syncHistory", r.err, r.es)
                           /\ UNCHANGED histIdx
                      ELSE /\ Goto("historyAdd", r.es)
                           /\ histIdx' = histIdx + 1
    /\ UNCHANGED <<config, diffResult, user, trakt, hydrateLocals, pending, historyToRemove>>

\* traktClient.HistoryAdd on the mirror
TraktHistoryAdd(t, items) == [t EXCEPT !.history = @ \cup {x.ID : x \in Range(items)}]

\* traktClient.HistoryRemove on the mirror
TraktHistoryRemove(t, items) == [t EXCEPT !.history = @ \ {x.ID : x \in Range(items)}]

\* syncHistory, lines 303-313: after the loop over diff.Add
SyncHistoryAdd ==
    /\ pc = "historyAdd"
    /\ LET diff == RatingsDiff
       IN  /\ histIdx > Len(diff.Add)
           /\ IF Len(historyToAdd) > 0
              THEN IF SuppressesAdd(conf.Mode)
                   THEN /\ Goto("historyRemove",
                                <<RatingsEntry("syncHistory", "log:would have added",
                                               historyToAdd, TRUE)>>)
                        /\ UNCHANGED trakt
                   ELSE \E ok \in BOOLEAN :
                        IF ok
                        THEN /\ trakt' = TraktHistoryAdd(trakt, historyToAdd)
                             /\ Goto("historyRemove",
                                     <<RatingsEntry("syncHistory", "HistoryAdd", historyToAdd,
                                                    TRUE)>>)
                        ELSE /\ Return("syncHistory", "failure adding trakt history",
                                       <<RatingsEntry("syncHistory", "HistoryAdd",
                                                      historyToAdd, FALSE)>>)
                             /\ UNCHANGED trakt
              ELSE /\ Goto("historyRemove", <<>>)
                   /\ UNCHANGED trakt
    /\ histIdx' = 1
    /\ UNCHANGED <<config, diffResult, user, hydrateLocals, pending, historyToAdd, historyToRemove>>

\* syncHistory, lines 314-329: one iteration of the loop over diff.Remove
SyncHistoryRemoveLookup ==
    /\ pc = "historyRemove"
    /\ LET diff == RatingsDiff
       IN  /\ histIdx <= Len(diff.Remove)
           /\ \E getOk \in BOOLEAN :
               LET r == HistoryLookup(diff.Remove, historyToRemove, TRUE, getOk)
               IN  /\ historyToRemove' = r.batch
                   /\ IF r.err # NoErr
                      THEN /\ Return("syncHistory", r.err, r.es)
                           /\ UNCHANGED histIdx
                      ELSE /\ Goto("historyRemove", r.es)
                           /\ histIdx' = histIdx + 1
    /\ UNCHANGED <<config, diffResult, user, trakt, hydrateLocals, pending, historyToAdd>>

\* syncHistory, lines 330-341: after the loop over diff.Remove
SyncHistoryRemove ==
    /\ pc = "historyRemove"
    /\ LET diff == RatingsDiff
       IN  /\ histIdx > Len(diff.Remove)
           /\ IF Len(historyToRemove) > 0
              THEN IF SuppressesRemove(conf.Mode)
                   THEN /\ Return("syncHistory", NoErr,
                                  <<RatingsEntry("syncHistory", "log:would have deleted",
                                                 historyToRemove, TRUE)>>)
                        /\ UNCHANGED trakt
                   ELSE \E ok \in BOOLEAN :
                        IF ok
                        THEN /\ trakt' = TraktHistoryRemove(trakt, historyToRemove)
                             /\ Return("syncHistory", NoErr,
                                       <<RatingsEntry("syncHistory", "HistoryRemove",
                                                      historyToRemove, TRUE)>>)
                        ELSE /\ Return("syncHistory", "failure removing trakt history",
                                       <<RatingsEntry("syncHistory", "HistoryRemove",
                                                      historyToRemove, FALSE)>>)
                             /\ UNCHANGED trakt
              ELSE /\ Return("syncHistory", NoErr, <<>>)
                   /\ UNCHANGED trakt
    /\ UNCHANGED <<config, diffResult, user, hydrateLocals, syncLocals>>

SyncLists ==
    \/ SyncListsSkip
    \/ SyncListsIteration

SyncRatings ==
    \/ SyncRatingsAdd
    \/ SyncRatingsRemove

SyncHistory ==
    \/ SyncHistoryStart
    \/ SyncHistoryAddLookup
    \/ SyncHistoryAdd
    \/ SyncHistoryRemoveLookup
    \/ SyncHistoryRemove

Next ==
    \/ SyncStart
    \/ Hydrate
    \/ SyncLists
    \/ SyncRatings
    \/ SyncHistory

Spec == Init /\ [][Next]_vars

-----------------------------------------------------------------------------
(* A second run: the program is started again after a full-mode run that     *)
(* returned nil, with the source as it was and the mirror as the first run   *)
(* left it.                                                                  *)

\* the positions of the trace where a run starts
Starts == {k \in 1..Len(trace) : trace[k].op = "log:sync started"}

\* NewSyncer and Sync, lines 32-66: a new Syncer, with empty maps, runs Sync
Restart ==
    /\ pc = "done"
    /\ err = NoErr
    /\ conf.Mode = SyncModeFull
    /\ Cardinality(Starts) = 1
    /\ user' = NewUser(conf)
    /\ pc' = "start"
    /\ traktIDMetas' = <<>>
    /\ delegatedErrors' = <<>>
    /\ errIdx' = 0
    /\ traktLists' = {}
    /\ pending' = {}
    /\ histIdx' = 0
    /\ historyToAdd' = <<>>
    /\ historyToRemove' = <<>>
    /\ UNCHANGED <<config, diffResult, trakt, err, trace>>

RerunNext ==
    \/ Next
    \/ Restart

RerunSpec == Init /\ [][RerunNext]_vars

-----------------------------------------------------------------------------
(* The two diffs alone: syncLists' and syncRatings' calls of the diff on any    *)
(* pair of lists and any pair of rating maps, the diff applied to the mirror's *)
(* side, and the diff computed again.                                          *)

DiffItems == {1, 2, 3}

RatingValues == {7, 8}

\* the rating maps over DiffItems: at most one rating item per identifier
RatingMaps ==
    UNION {{{[ID |-> i, Type |-> TraktItemTypeMovie, Rating |-> f[i]] : i \in S} :
              f \in [S -> RatingValues]} : S \in SUBSET DiffItems}

\* the one IMDb list of s.user.imdbLists
TheList == CHOOSE x \in user.imdbLists : TRUE

\* s.user with one IMDb list and at most one Trakt list under its id, or with two
\* rating maps
DiffInputs ==
    {[imdbLists |-> {[ListID |-> "l1", ListName |-> NameC, IsWatchlist |-> w, Items |-> src]},
      traktLists |-> IF present
                     THEN {[IMDb |-> "l1", Slug |-> IF w THEN NoName ELSE SlugC, Items |-> mir]}
                     ELSE {},
      imdbRatings |-> {},
      traktRatings |-> {}] :
        w \in BOOLEAN, src \in SUBSET DiffItems,
        mir \in SUBSET DiffItems, present \in BOOLEAN}
      \cup {[imdbLists |-> {}, traktLists |-> {}, imdbRatings |-> src, traktRatings |-> mir] :
              src \in RatingMaps, mir \in RatingMaps}

DiffInit ==
    /\ conf = [Mode |-> SyncModeFull, Lists |-> TRUE, Watchlist |-> TRUE, Ratings |-> TRUE,
               History |-> TRUE]
    /\ authless = FALSE
    /\ imdb = IMDbWorld({})
    /\ trakt = TraktWorld({})
    /\ user \in DiffInputs
    /\ pc = "diff"
    /\ err = NoErr
    /\ trace = <<>>
    /\ traktIDMetas = <<>>
    /\ delegatedErrors = <<>>
    /\ errIdx = 0
    /\ traktLists = {}
    /\ pending = {}
    /\ histIdx = 0
    /\ historyToAdd = <<>>
    /\ historyToRemove = <<>>
    /\ diffResult = NoDiff

diffFrame ==
    <<config, trakt, err, trace, hydrateLocals, syncLocals>>

\* syncLists, line 192
DiffLists ==
    /\ pc \in {"diff", "listsApplied"}
    /\ user.imdbLists # {}
    /\ diffResult' = DiffOfList(TheList)
    /\ pc' = IF pc = "diff" THEN "listsDiffed" ELSE "listsRediffed"
    /\ UNCHANGED <<user, diffFrame>>

\* syncRatings, line 250
DiffRatings ==
    /\ pc \in {"diff", "ratingsApplied"}
    /\ user.imdbLists = {}
    /\ diffResult' = RatingsDiff
    /\ pc' = IF pc = "diff" THEN "ratingsDiffed" ELSE "ratingsRediffed"
    /\ UNCHANGED <<user, diffFrame>>

\* the Trakt list after its Add set is added and its Remove set removed
AppliedToList(traktList, diff) ==
    [traktList EXCEPT !.Items = (@ \cup Range(diff.Add)) \ Range(diff.Remove)]

\* the Trakt rating map after its Add set is added and its Remove set removed
AppliedToRatings(traktRatings, diff) ==
    {x \in traktRatings : x.ID \notin Range(IDs(diff.Remove))} \cup Range(diff.Add)

\* the mirror's side of the list after the diff is applied to it
ApplyListsDiff ==
    /\ pc = "listsDiffed"
    /\ user' = [user EXCEPT !.traktLists =
                   PutTraktList(@, AppliedToList(TraktListOf(@, TheList.ListID), diffResult))]
    /\ pc' = "listsApplied"
    /\ UNCHANGED <<diffResult, diffFrame>>

\* the mirror's side of the ratings after the diff is applied to it
ApplyRatingsDiff ==
    /\ pc = "ratingsDiffed"
    /\ user' = [user EXCEPT !.traktRatings = AppliedToRatings(@, diffResult)]
    /\ pc' = "ratingsApplied"
    /\ UNCHANGED <<diffResult, diffFrame>>

DiffNext ==
    \/ DiffLists
    \/ DiffRatings
    \/ ApplyListsDiff
    \/ ApplyRatingsDiff

DiffSpec == DiffInit /\ [][DiffNext]_vars

-----------------------------------------------------------------------------
(* Properties *)

MutatingOps ==
    {"ListAdd", "ListItemsAdd", "ListItemsRemove", "WatchlistItemsAdd",
     "WatchlistItemsRemove", "RatingsAdd", "RatingsRemove", "HistoryAdd", "HistoryRemove"}

RemoveOps == {"ListItemsRemove", "WatchlistItemsRemove", "RatingsRemove", "HistoryRemove"}

\* the positions of the trace with this operation
At(op) == {k \in 1..Len(trace) : trace[k].op = op}

\* the positions of the trace with this operation made for this IMDb list
AtList(op, lid) == {k \in At(op) : trace[k].list = lid}

\* Sync logged the failure of the stage
StageFailed(stage) == At("log:failure " \o stage) # {}

\* no external call of the run has failed
NoFailedCall == \A k \in 1..Len(trace) : trace[k].ok

Finished == pc = "done"

\* Sync has returned nil
Succeeded == pc = "done" /\ err = NoErr

SlugOfList(imdbList) ==
    IF imdbList.IsWatchlist THEN NoName ELSE InferTraktListSlug(imdbList.ListName)

AddOpOf(imdbList) == IF imdbList.IsWatchlist THEN "WatchlistItemsAdd" ELSE "ListItemsAdd"

RemoveOpOf(imdbList) ==
    IF imdbList.IsWatchlist THEN "WatchlistItemsRemove" ELSE "ListItemsRemove"

\* the run got as far as the diff of syncRatings (line 250)
RatingsDiffComputed ==
    /\ ~authless /\ conf.Ratings
    /\ pc \in {"syncRatingsRemove", "syncHistory", "historyAdd", "historyRemove", "done"}
    /\ ~StageFailed("hydrate") /\ ~StageFailed("syncLists")

\* the positions of a successful call of op for the list, with this target and payload
Applied(op, lid, target, items) ==
    {k \in AtList(op, lid) :
        trace[k].target = target /\ trace[k].items = items /\ trace[k].ok}

\* list sync has run the body of its loop for the list
Visited(lid) ==
    /\ lid \notin pending
    /\ pc \in {"syncListsLoop", "syncRatings", "syncRatingsRemove", "syncHistory",
               "historyAdd", "historyRemove", "done"}
    /\ ~StageFailed("hydrate")
    /\ conf.Lists \/ conf.Watchlist

\* C1: in dry-run mode no mutating operation of the mirror client is ever invoked,
\* whatever the data, the enabled domains and the outcomes of the calls
C1_DryRunNoMutation ==
    conf.Mode = SyncModeDryRun => \A k \in 1..Len(trace) : trace[k].op \notin MutatingOps

\* a dry-run run that returned nil after suppressing a list creation and an addition
C1_Witness ==
    /\ conf.Mode = SyncModeDryRun
    /\ Succeeded
    /\ At("log:would have created trakt list") # {}
    /\ At("log:would have added") # {}

\* C2 as stated: for each domain whose computed Remove set is non-empty, dry-run and
\* add-only never invoke the remove operation and full mode invokes it exactly once
C2_Original ==
    Finished =>
        LET removes(wl) == {x \in user.imdbLists : x.IsWatchlist = wl /\ Visited(x.ListID)
                                                    /\ DiffOfList(x).Remove # <<>>}
            expected == IF conf.Mode = SyncModeFull THEN 1 ELSE 0
        IN  /\ removes(FALSE) # {} => Cardinality(At("ListItemsRemove")) = expected
            /\ removes(TRUE) # {} => Cardinality(At("WatchlistItemsRemove")) = expected
            /\ (RatingsDiffComputed /\ RatingsDiff.Remove # <<>>)
                  => Cardinality(At("RatingsRemove")) = expected
            /\ (historyToRemove # <<>> /\ err \in {NoErr, "failure removing trakt history"})
                  => Cardinality(At("HistoryRemove")) = expected

\* C2 (amended): dry-run and add-only never invoke a remove operation; full mode
\* invokes it at most once per list, for ratings and for history, and exactly once,
\* in a run that returns no error, for each list, for ratings and for the history
\* batch whose Remove set is non-empty
C2_ModeGate ==
    /\ conf.Mode # SyncModeFull => \A k \in 1..Len(trace) : trace[k].op \notin RemoveOps
    /\ \A x \in user.imdbLists : Cardinality(AtList(RemoveOpOf(x), x.ListID)) <= 1
    /\ Cardinality(At("RatingsRemove")) <= 1
    /\ Cardinality(At("HistoryRemove")) <= 1
    /\ (Succeeded /\ conf.Mode = SyncModeFull) =>
        /\ \A x \in user.imdbLists :
            DiffOfList(x).Remove # <<>> =>
                Cardinality(AtList(RemoveOpOf(x), x.ListID)) = 1
        /\ (RatingsDiffComputed /\ RatingsDiff.Remove # <<>>)
              => Cardinality(At("RatingsRemove")) = 1
        /\ historyToRemove # <<>> => Cardinality(At("HistoryRemove")) = 1

\* a full run that returned nil after removing items from two named lists
C2_Witness ==
    /\ conf.Mode = SyncModeFull
    /\ Succeeded
    /\ AtList("ListItemsRemove", "l1") # {}
    /\ AtList("ListItemsRemove", "l2") # {}

\* what full and add-only modes do with the Add and Remove set of one list
ListApplied(x) ==
    LET diff == DiffOfList(x)
    IN  /\ diff.Add # <<>> =>
            Cardinality(Applied(AddOpOf(x), x.ListID, SlugOfList(x), diff.Add)) = 1
        /\ (diff.Remove # <<>> /\ conf.Mode = SyncModeFull) =>
            Cardinality(Applied(RemoveOpOf(x), x.ListID, SlugOfList(x), diff.Remove)) = 1
        /\ (diff.Remove # <<>> /\ conf.Mode = SyncModeAddOnly) =>
            /\ AtList(RemoveOpOf(x), x.ListID) = {}
            /\ Applied("log:would have deleted", x.ListID, SlugOfList(x), diff.Remove) # {}

\* what full and add-only modes do with an Add and a Remove set of ratings or history
BatchApplied(stage, addOp, removeOp, add, remove) ==
    LET at(op, items) ==
            {k \in At(op) : trace[k].stage = stage /\ trace[k].items = IDs(items) /\ trace[k].ok}
    IN  /\ add # <<>> => Cardinality(at(addOp, add)) = 1
        /\ (remove # <<>> /\ conf.Mode = SyncModeFull) => Cardinality(at(removeOp, remove)) = 1
        /\ (remove # <<>> /\ conf.Mode = SyncModeAddOnly) =>
            /\ At(removeOp) = {}
            /\ at("log:would have deleted", remove) # {}

\* C3: when no client call fails, full mode passes every non-empty Add and Remove set
\* (per list, ratings, history batch) to the mirror's add or remove operation with
\* exactly that payload; add-only does so for the Add sets and only logs the Remove sets
C3_SetsApplied ==
    (Finished /\ NoFailedCall /\ conf.Mode \in {SyncModeFull, SyncModeAddOnly}) =>
        /\ (~StageFailed("hydrate") /\ (conf.Lists \/ conf.Watchlist)) =>
            \A x \in user.imdbLists : ListApplied(x)
        /\ RatingsDiffComputed =>
            BatchApplied("syncRatings", "RatingsAdd", "RatingsRemove",
                         RatingsDiff.Add, RatingsDiff.Remove)
        /\ (err = NoErr /\ ~authless /\ conf.History) =>
            BatchApplied("syncHistory", "HistoryAdd", "HistoryRemove",
                         historyToAdd, historyToRemove)

\* an add-only run without failures that added to a list and held back a removal
C3_Witness ==
    /\ conf.Mode = SyncModeAddOnly
    /\ Finished /\ NoFailedCall
    /\ At("ListItemsAdd") # {}
    /\ At("log:would have deleted") # {}

\* the identity keys of a set of Trakt rating items
KeysOf(ratings) == {GetItemID(x).id[1] : x \in {y \in ratings : GetItemID(y).id # <<>>}}

\* the mirror holds the list under the slug of its name, with the same items
ListMirrored(imdbList) ==
    \E x \in trakt.lists :
        x.Slug = InferTraktListSlug(imdbList.ListName) /\ x.Items = imdbList.Items

\* C4: after a full run that returns no error, with credentials and with lists,
\* watchlist and ratings enabled, the mirror holds for every configured list, for the
\* watchlist and for the ratings the same identity keys as the source
C4_MirrorMatchesSource ==
    (Succeeded /\ conf.Mode = SyncModeFull /\ ~authless
       /\ conf.Lists /\ conf.Watchlist /\ conf.Ratings) =>
        /\ \A x \in imdb.lists : ListMirrored(x)
        /\ trakt.watchlist = imdb.watchlist.Items
        /\ KeysOf(trakt.ratings) = {x.ID : x \in imdb.ratings}

\* the names of the source lists give different slugs
DistinctSlugs ==
    \A x \in imdb.lists, y \in imdb.lists :
        InferTraktListSlug(x.ListName) = InferTraktListSlug(y.ListName) => x = y

\* C4 holds of the runs in which no two source lists share a slug
C4_MirrorMatchesSourceDistinctSlugs == DistinctSlugs => C4_MirrorMatchesSource

StageNo(stage) ==
    CASE stage = "hydrate"     -> 1
      [] stage = "syncLists"   -> 2
      [] stage = "syncRatings" -> 3
      [] stage = "syncHistory" -> 4
      [] OTHER                 -> 0

Stages == {"hydrate", "syncLists", "syncRatings", "syncHistory"}

HydrateOps ==
    {"IMDb.RatingsExport", "IMDb.ListsExport", "IMDb.WatchlistExport", "IMDb.ListsGet",
     "IMDb.WatchlistGet", "IMDb.RatingsGet", "ListsGet", "ListAdd", "WatchlistGet",
     "RatingsGet"}

SyncListsOps ==
    {"ListItemsAdd", "ListItemsRemove", "WatchlistItemsAdd", "WatchlistItemsRemove"}

SyncRatingsOps == {"RatingsAdd", "RatingsRemove"}

SyncHistoryOps == {"HistoryGet", "HistoryAdd", "HistoryRemove"}

\* the operations of the two clients
CallOps == HydrateOps \cup SyncListsOps \cup SyncRatingsOps \cup SyncHistoryOps

\* the stage whose code calls the operation
StageOfOp(op) ==
    CASE op \in HydrateOps      -> "hydrate"
      [] op \in SyncListsOps    -> "syncLists"
      [] op \in SyncRatingsOps  -> "syncRatings"
      [] OTHER                  -> "syncHistory"

\* the positions of the trace that are calls or logs of a stage, not of Sync itself
StageEntries == {k \in 1..Len(trace) : trace[k].stage \in Stages}

\* C5: the stages run in the order hydrate, list sync, ratings sync, history sync;
\* when a stage returns an error Sync returns it at once and no call of a later
\* stage is made
C5_StagesInOrder ==
    /\ \A i \in StageEntries, j \in StageEntries :
        i < j => StageNo(trace[i].stage) <= StageNo(trace[j].stage)
    /\ \A k \in 1..Len(trace) :
        trace[k].op \in CallOps => trace[k].stage = StageOfOp(trace[k].op)
    /\ err # NoErr =>
        /\ pc = "done"
        /\ \E stage \in Stages :
            /\ trace[Len(trace)].op = "log:failure " \o stage
            /\ \A k \in StageEntries : StageNo(trace[k].stage) <= StageNo(stage)
            /\ \A later \in Stages : StageNo(later) > StageNo(stage) => ~StageFailed(later)

\* ratings sync failed after hydrate and list sync had made their calls
C5_Witness ==
    /\ err # NoErr
    /\ StageFailed("syncRatings")
    /\ \E k \in At("ListItemsAdd") : trace[k].ok
    /\ \E k \in At("RatingsAdd") : ~trace[k].ok

ListErrors == {"failure creating trakt list", "failure hydrating trakt lists"}

\* the mirror's list fetch reported exactly one error, a slug that was not found
OneNotFound == Len(delegatedErrors) = 1 /\ delegatedErrors[1].kind = "notfound"

\* the log entries of hydrate
HydrateLogs == {k \in 1..Len(trace) : trace[k].stage = "hydrate" /\ trace[k].op \notin CallOps}

\* C6: when the mirror's list fetch reports exactly one slug as not found, full mode
\* issues exactly one ListAdd, with that slug and the name of the source list the slug
\* comes from; dry-run issues no ListAdd and exactly one log entry; the signal is not
\* an error: hydration goes on after it (in full mode, once the list is created)
C6_NotFound ==
    OneNotFound =>
        LET slug == delegatedErrors[1].Slug
            creates == At("ListAdd")
            handled == pc # "delegatedErrors" \/ errIdx > 1
        IN  /\ conf.Mode = SyncModeFull =>
                /\ Cardinality(creates) <= 1
                /\ handled => Cardinality(creates) = 1
                /\ \A k \in creates :
                    /\ trace[k].target = slug
                    /\ \E x \in imdb.lists :
                        /\ InferTraktListSlug(x.ListName) = slug
                        /\ trace[k].name = x.ListName
                /\ (handled /\ \A k \in creates : trace[k].ok) =>
                    errIdx = 2 /\ err \notin ListErrors
            /\ conf.Mode = SyncModeDryRun =>
                /\ creates = {}
                /\ Cardinality(HydrateLogs) <= 1
                /\ handled =>
                    /\ Cardinality(HydrateLogs) = 1
                    /\ \A k \in HydrateLogs :
                        /\ trace[k].op = "log:would have created trakt list"
                        /\ trace[k].target = slug
                    /\ errIdx = 2 /\ err \notin ListErrors

\* a full run that returned nil after creating the one list that was not found
C6_Witness ==
    /\ OneNotFound
    /\ conf.Mode = SyncModeFull
    /\ Succeeded
    /\ \E k \in At("ListAdd") : trace[k].ok

\* C7: in full mode, for a source list whose slug was not found on the mirror: the
\* list is created before any item call for the slug, the mirror's lists are fetched
\* once only, list sync calls ListItemsAdd for the slug with all items of the source
\* list and never ListItemsRemove
C7_CreatedThenFilled ==
    conf.Mode = SyncModeFull =>
        \A j \in 1..Len(delegatedErrors) :
            delegatedErrors[j].kind = "notfound" =>
                LET slug == delegatedErrors[j].Slug
                IN  /\ \A k \in At("ListItemsAdd") \cup At("ListItemsRemove") :
                        trace[k].target = slug =>
                            \E i \in At("ListAdd") :
                                i < k /\ trace[i].target = slug /\ trace[i].ok
                    /\ Cardinality(At("ListsGet")) = 1
                    /\ \A k \in At("ListItemsRemove") : trace[k].target # slug
                    /\ \A x \in imdb.lists :
                        (InferTraktListSlug(x.ListName) = slug /\ Visited(x.ListID)
                           /\ x.Items # {}) =>
                            \E k \in AtList("ListItemsAdd", x.ListID) :
                                trace[k].target = slug /\ trace[k].items = SetToSeq(x.Items)

\* a full run that returned nil after creating a missing list and adding its items
C7_Witness ==
    /\ conf.Mode = SyncModeFull
    /\ Succeeded
    /\ \E i \in At("ListAdd"), k \in At("ListItemsAdd") :
        i < k /\ trace[i].target = trace[k].target /\ trace[k].ok
                /\ Len(trace[k].items) = Cardinality(Items)

\* the positions of the trace with this operation or log entry of syncHistory
AtHistory(op) == {k \in At(op) : trace[k].stage = "syncHistory"}

\* the history lookup of the item succeeded, with (found) or without entries
LookedUp(id, found) ==
    \E k \in At("HistoryGet") : trace[k].items = <<id>> /\ trace[k].ok /\ trace[k].found = found

\* C8: the history-Add batch is exactly the items of the ratings Add set whose
\* history lookup returned no entry, each once; the history-Remove batch is exactly
\* the items of the ratings Remove set whose lookup returned an entry
C8_HistoryBatches ==
    LET expectedAdd == SetToSeq({id \in Range(IDs(RatingsDiff.Add)) : LookedUp(id, FALSE)})
        expectedRemove ==
            SetToSeq({id \in Range(IDs(RatingsDiff.Remove)) : LookedUp(id, TRUE)})
        adds == AtHistory("HistoryAdd") \cup AtHistory("log:would have added")
        removes == AtHistory("HistoryRemove") \cup AtHistory("log:would have deleted")
    IN  /\ \A k \in adds : trace[k].items = expectedAdd
        /\ \A k \in removes : trace[k].items = expectedRemove
        /\ (Succeeded /\ ~authless /\ conf.History) =>
            /\ \A id \in Range(IDs(RatingsDiff.Add)) \cup Range(IDs(RatingsDiff.Remove)) :
                Cardinality({k \in At("HistoryGet") : trace[k].items = <<id>>}) = 1
            /\ IDs(historyToAdd) = expectedAdd
            /\ IDs(historyToRemove) = expectedRemove
            /\ Cardinality(adds) = (IF expectedAdd = <<>> THEN 0 ELSE 1)
            /\ Cardinality(removes) = (IF expectedRemove = <<>> THEN 0 ELSE 1)

\* a run that returned nil after adding every item to the history
C8_Witness ==
    /\ Succeeded
    /\ \E k \in AtHistory("HistoryAdd") : Len(trace[k].items) = Cardinality(Items)

\* what list sync does, in any mode, with the diff of one list
ListSynced(x) ==
    LET diff == DiffOfList(x)
        logged(op, items) == Applied(op, x.ListID, SlugOfList(x), items) # {}
    IN  IF conf.Mode = SyncModeDryRun
        THEN /\ diff.Add # <<>> => logged("log:would have added", diff.Add)
             /\ (diff.Add = <<>> /\ diff.Remove # <<>>) =>
                    logged("log:would have deleted", diff.Remove)
        ELSE ListApplied(x)

SecuredOps ==
    {"WatchlistGet", "RatingsGet", "RatingsAdd", "RatingsRemove", "HistoryGet",
     "HistoryAdd", "HistoryRemove"}

\* C9: without credentials the mirror's watchlist and ratings are never fetched and no
\* ratings or history operation is invoked, in any configuration and mode, while the
\* named lists are still fetched, diffed and synced when lists are enabled
C9_Authless ==
    authless =>
        /\ \A k \in 1..Len(trace) : trace[k].op \notin SecuredOps
        /\ (Succeeded /\ conf.Lists) =>
            /\ Cardinality(At("IMDb.ListsGet")) = 1
            /\ Cardinality(At("ListsGet")) = 1
            /\ \A x \in imdb.lists : x \in user.imdbLists /\ ListSynced(x)

\* a run without credentials, every domain enabled, that added items to a named list
C9_Witness ==
    /\ authless
    /\ conf.Lists /\ conf.Watchlist /\ conf.Ratings /\ conf.History
    /\ Succeeded
    /\ \E k \in At("ListItemsAdd") : trace[k].ok

\* C10: a fetched mirror rating without a concrete identifier never disappears
\* silently: once the mirror's ratings are fetched and hydration goes on, every
\* fetched rating item is in the rating map
C10_NoSilentDrop ==
    pc = "IMDbRatingsGet" => \A x \in trakt.ratings : x \in user.traktRatings

\* a successful call of op comes before position k of the trace
Before(op, k) == \E i \in 1..(k - 1) : trace[i].op = op /\ trace[i].ok

\* every call of `later` comes after a successful call of `earlier`
Precedes(earlier, later) == \A k \in At(later) : Before(earlier, k)

\* hydrate has returned nil
Hydrated ==
    /\ pc \notin {"start", "RatingsExport", "ListsExport", "WatchlistExport", "ListsGet",
                  "TraktListsGet", "delegatedErrors", "WatchlistGet", "TraktWatchlistGet",
                  "RatingsGet", "IMDbRatingsGet"}
    /\ ~StageFailed("hydrate")

\* the export and the fetches of named lists and of the watchlist, in the order of C11
ListsInOrder ==
    /\ Precedes("IMDb.ListsExport", "IMDb.ListsGet")
    /\ Precedes("IMDb.ListsGet", "ListsGet")
    /\ Precedes("IMDb.WatchlistExport", "IMDb.WatchlistGet")
    /\ Precedes("IMDb.WatchlistGet", "WatchlistGet")

\* a hydration that returns nil has made each call of an enabled domain once
EnabledDomainsFetched ==
    Hydrated =>
        /\ conf.Lists =>
            \A op \in {"IMDb.ListsExport", "IMDb.ListsGet", "ListsGet"} :
                Cardinality(At(op)) = 1
        /\ (conf.Watchlist /\ ~authless) =>
            \A op \in {"IMDb.WatchlistExport", "IMDb.WatchlistGet", "WatchlistGet"} :
                Cardinality(At(op)) = 1
        /\ (conf.Ratings /\ ~authless) =>
            \A op \in {"IMDb.RatingsExport", "IMDb.RatingsGet", "RatingsGet"} :
                Cardinality(At(op)) = 1

\* C11 as stated: for named lists, watchlist and ratings the export comes before the
\* source fetch and the source fetch before the mirror fetch
C11_Original ==
    /\ ListsInOrder
    /\ Precedes("IMDb.RatingsExport", "IMDb.RatingsGet")
    /\ Precedes("IMDb.RatingsGet", "RatingsGet")

\* C11 (amended): for every enabled domain the export comes before both fetches; for
\* named lists and the watchlist the source fetch comes before the mirror fetch; for
\* ratings the mirror fetch comes before the source fetch
C11_ExportThenFetch ==
    /\ ListsInOrder
    /\ Precedes("IMDb.RatingsExport", "RatingsGet")
    /\ Precedes("RatingsGet", "IMDb.RatingsGet")
    /\ EnabledDomainsFetched

\* a hydration that returned nil with the three domains enabled
C11_Witness ==
    /\ Hydrated
    /\ conf.Lists /\ conf.Watchlist /\ conf.Ratings /\ ~authless
    /\ At("IMDb.RatingsGet") # {} /\ At("WatchlistGet") # {} /\ At("ListsGet") # {}

\* the log entries of a stage with this message and payload
Logged(stage, op, items) ==
    {k \in At(op) : trace[k].stage = stage /\ trace[k].items = IDs(items)}

\* ratings sync has returned nil
RatingsSynced ==
    /\ RatingsDiffComputed
    /\ pc \in {"syncHistory", "historyAdd", "historyRemove", "done"}
    /\ ~StageFailed("syncRatings")

\* dry-run logs the Add and the Remove set of the list, each with its payload
ListReported(x) ==
    LET diff == DiffOfList(x)
        logged(op, items) == Applied(op, x.ListID, SlugOfList(x), items) # {}
    IN  /\ diff.Add # <<>> => logged("log:would have added", diff.Add)
        /\ diff.Remove # <<>> => logged("log:would have deleted", diff.Remove)

\* dry-run logs the Add and the Remove set of ratings and the two batches of history
RatingsAndHistoryReported ==
    /\ RatingsSynced =>
        /\ RatingsDiff.Add # <<>> =>
            Logged("syncRatings", "log:would have added", RatingsDiff.Add) # {}
        /\ RatingsDiff.Remove # <<>> =>
            Logged("syncRatings", "log:would have deleted", RatingsDiff.Remove) # {}
    /\ (Succeeded /\ ~authless /\ conf.History) =>
        /\ historyToAdd # <<>> =>
            Logged("syncHistory", "log:would have added", historyToAdd) # {}
        /\ historyToRemove # <<>> =>
            Logged("syncHistory", "log:would have deleted", historyToRemove) # {}

\* C12: in dry-run mode every non-empty Add set and every non-empty Remove set, of
\* each named list, of the watchlist, of ratings and of history, is logged with its
\* payload, also when a list has both a non-empty Add and a non-empty Remove set
C12_DryRunReported ==
    conf.Mode = SyncModeDryRun =>
        /\ \A x \in user.imdbLists : Visited(x.ListID) => ListReported(x)
        /\ RatingsAndHistoryReported

\* C12 holds of ratings and history, and of the lists that do not have both sets
C12_DryRunReportedButRemoveAfterAdd ==
    conf.Mode = SyncModeDryRun =>
        /\ \A x \in user.imdbLists :
            (Visited(x.ListID) /\ (DiffOfList(x).Add = <<>> \/ DiffOfList(x).Remove = <<>>))
                => ListReported(x)
        /\ \A x \in user.imdbLists :
            (Visited(x.ListID) /\ DiffOfList(x).Add # <<>> /\ DiffOfList(x).Remove # <<>>)
                => AtList("log:would have deleted", x.ListID) = {}
        /\ RatingsAndHistoryReported

\* list sync has started and is past its skip decisions (lines 182-190)
ListsStageEntered ==
    /\ Hydrated
    /\ pc # "syncLists"

\* ratings sync has started and is past its skip decisions (lines 242-249)
RatingsStageEntered ==
    /\ ListsStageEntered
    /\ pc \notin {"syncListsLoop", "syncRatings"}
    /\ ~StageFailed("syncLists")

\* history sync has started and is past its skip decisions (lines 275-282)
HistoryStageEntered ==
    /\ RatingsStageEntered
    /\ pc \notin {"syncRatingsRemove", "syncHistory"}
    /\ ~StageFailed("syncRatings")

RatingsSkipLogs ==
    At("log:skipping ratings sync") \cup At("log:skipping ratings sync: no imdb auth")

HistorySkipLogs ==
    At("log:skipping history sync") \cup At("log:skipping history sync: no imdb auth")

\* the skips of named lists, ratings and history are logged
OtherSkipsReported ==
    /\ (ListsStageEntered /\ ~conf.Lists) => At("log:skipping lists sync") # {}
    /\ (RatingsStageEntered /\ (authless \/ ~conf.Ratings)) => RatingsSkipLogs # {}
    /\ (HistoryStageEntered /\ (authless \/ ~conf.History)) => HistorySkipLogs # {}

\* C13: in a run that reaches the stage, a domain (named lists, watchlist, ratings,
\* history) that is not synced because it is disabled or because the run has no
\* credentials gets a skip log entry
C13_SkipsReported ==
    /\ OtherSkipsReported
    /\ (ListsStageEntered /\ (authless \/ ~conf.Watchlist)) =>
        At("log:skipping watchlist sync") # {}

\* C13 holds but for the watchlist of a run without credentials, which is neither
\* fetched nor synced nor reported
C13_SkipsReportedButAuthlessWatchlist ==
    /\ OtherSkipsReported
    /\ (ListsStageEntered /\ ~conf.Watchlist) => At("log:skipping watchlist sync") # {}
    /\ (ListsStageEntered /\ authless /\ conf.Watchlist) =>
        /\ At("log:skipping watchlist sync") = {}
        /\ \A x \in user.imdbLists : ~x.IsWatchlist
        /\ At("IMDb.WatchlistGet") \cup At("WatchlistGet") = {}

\* the identity keys of a set of rating items
IDsOf(ratings) == {x.ID : x \in ratings}

\* no item occurs twice in the sequence
NoRepeats(items) == \A i \in 1..Len(items), j \in 1..Len(items) : items[i] = items[j] => i = j

C14_ListWitness ==
    /\ pc = "listsDiffed"
    /\ diffResult.Add # <<>>
    /\ diffResult.Remove # <<>>

\* the diff computed again after the first diff is applied to the mirror is empty
RediffEmpty == pc \in {"listsRediffed", "ratingsRediffed"} => diffResult = NoDiff

\* the positions of the trace that belong to the second run
SecondRun == {k \in 1..Len(trace) : \E i \in Starts, j \in Starts : i < j /\ j < k}

\* C15: a second full-mode run after a first one that returned no error, with the
\* source unchanged, computes empty diffs and issues no mutating call
C15_SecondRunIdle ==
    /\ \A k \in SecondRun : trace[k].op \notin MutatingOps
    /\ (Cardinality(Starts) = 2 /\ Hydrated) =>
        /\ \A x \in user.imdbLists : DiffOfList(x) = NoDiff
        /\ RatingsDiff = NoDiff

\* C15 holds of the runs in which no two source lists share a slug
C15_SecondRunIdleDistinctSlugs == DistinctSlugs => C15_SecondRunIdle

\* a second run that returned nil after a first run that changed the mirror
SecondRunDone ==
    /\ Cardinality(Starts) = 2
    /\ Succeeded
    /\ \E k \in 1..Len(trace) : trace[k].op \in MutatingOps

\* the history lookups that failed
FailedLookups == {k \in At("HistoryGet") : ~trace[k].ok}

\* the identity of an item could not be resolved in history sync (lines 291, 318)
IdentityFailed == StageFailed("syncHistory") /\ err = "failure fetching trakt item id"

\* a lookup or an identity resolution of history sync has failed
HistoryLookupFailed == IdentityFailed \/ FailedLookups # {}

\* the failure is about an item of the ratings Add set (the first loop)
FailedInAdd ==
    \/ IdentityFailed
    \/ \E k \in FailedLookups : trace[k].items[1] \in Range(IDs(RatingsDiff.Add))

\* the failure is about an item of the ratings Remove set (the second loop)
FailedInRemove ==
    \E k \in FailedLookups : trace[k].items[1] \in Range(IDs(RatingsDiff.Remove))

\* the history step returns an error at the failure: nothing follows the failed
\* lookup but the failure entry of Sync, and the Remove batch is never sent or logged
AbortedAtFailure ==
    /\ pc = "done"
    /\ err \in {"failure fetching trakt item id", "failure fetching trakt history"}
    /\ StageFailed("syncHistory")
    /\ trace[Len(trace)].op = "log:failure syncHistory"
    /\ \A k \in FailedLookups : k = Len(trace) - 1
    /\ Cardinality(FailedLookups) <= 1
    /\ At("HistoryRemove") = {}
    /\ AtHistory("log:would have deleted") = {}

C16_IdentityWitness ==
    /\ IdentityFailed
    /\ At("HistoryGet") # {}

\* the mirror's list fetch reported an error that is not the not-found signal
OtherListError == \E j \in 1..Len(delegatedErrors) : delegatedErrors[j].kind = "other"

\* the add and remove calls of list sync that failed
FailedListCalls == {k \in 1..Len(trace) : trace[k].op \in SyncListsOps /\ ~trace[k].ok}

\* the positions of the trace that belong to ratings sync or history sync
LaterStages == {k \in 1..Len(trace) : trace[k].stage \in {"syncRatings", "syncHistory"}}

\* C17: when the mirror's list fetch returns an error other than not-found, or an add
\* or remove call for one list fails, Sync returns an error, no add or remove call is
\* made for another list after the failure, and ratings and history sync do not run
C17_ListFailureAborts ==
    /\ OtherListError =>
        /\ pc \in {"delegatedErrors", "done"}
        /\ pc = "done" => err \in ListErrors
        /\ \A k \in 1..Len(trace) : trace[k].op \notin SyncListsOps
        /\ LaterStages = {}
    /\ FailedListCalls # {} =>
        /\ pc = "done"
        /\ err \in {"failure adding items to trakt list", "failure removing items from trakt list"}
        /\ \A k \in FailedListCalls : k = Len(trace) - 1
        /\ trace[Len(trace)].op = "log:failure syncLists"
        /\ LaterStages = {}

\* an add call failed while another list was still to be visited, with ratings and
\* history enabled
C17_Witness ==
    /\ FailedListCalls # {}
    /\ pending # {}
    /\ conf.Ratings /\ conf.History /\ ~authless

\* the mirror's list fetch failed with another error and hydrate has returned it
C17_FetchWitness ==
    /\ OtherListError
    /\ pc = "done"
    /\ err = "failure hydrating trakt lists"

\* the slugs of the source's named lists
NamedSlugs == {InferTraktListSlug(x.ListName) : x \in imdb.lists}

\* the calls of the trace address named lists by slug and the watchlist by its own
\* operations
WatchlistOpsApart ==
    \A k \in 1..Len(trace) :
        /\ trace[k].op \in {"ListItemsAdd", "ListItemsRemove"} =>
            /\ trace[k].list \in ListIds
            /\ trace[k].target \in NamedSlugs
        /\ trace[k].op = "ListAdd" => trace[k].target \in NamedSlugs
        /\ trace[k].op \in {"WatchlistItemsAdd", "WatchlistItemsRemove"} =>
            /\ trace[k].list = WatchlistID
            /\ trace[k].target = NoName

\* the step changes the mirror's watchlist
WatchlistChanges == trakt'.watchlist # trakt.watchlist

\* the step ends with a successful WatchlistItemsAdd or WatchlistItemsRemove call
WatchlistCallMade ==
    /\ Len(trace') > Len(trace)
    /\ \E k \in (Len(trace) + 1)..Len(trace') :
        trace'[k].op \in {"WatchlistItemsAdd", "WatchlistItemsRemove"} /\ trace'[k].ok

\* C18: no ListAdd, ListItemsAdd or ListItemsRemove call is made for the watchlist;
\* the mirror's watchlist changes only through WatchlistItemsAdd and
\* WatchlistItemsRemove, and these two are never used for a named list
C18_WatchlistApart == [][WatchlistOpsApart' /\ (WatchlistChanges => WatchlistCallMade)]_vars

\* a run that returned nil after adding to and removing from the watchlist, with
\* named lists enabled
C18_Witness ==
    /\ Succeeded
    /\ conf.Lists
    /\ \E k \in At("WatchlistItemsAdd") : trace[k].ok
    /\ \E k \in At("WatchlistItemsRemove") : trace[k].ok

\* C19: once hydrate has returned, no step of list, ratings or history sync changes
\* the four maps of s.user, so the ratings diff of history sync is the one of ratings
\* sync, also after ratings sync has changed the ratings of the mirror
C19_SnapshotFrozen == [][Hydrated => (user' = user /\ RatingsDiff' = RatingsDiff)]_vars

\* history sync starts its lookups with a non-empty Add set that ratings sync has
\* already added to the mirror
C19_Witness ==
    /\ pc = "historyAdd"
    /\ \E k \in At("RatingsAdd") : trace[k].ok
    /\ RatingsDiff.Add # <<>>
    /\ Range(IDs(RatingsDiff.Add)) \subseteq {x.ID : x \in trakt.ratings}

RatingsOps == {"IMDb.RatingsExport", "IMDb.RatingsGet", "RatingsGet", "RatingsAdd", "RatingsRemove"}

\* C20: with history sync enabled, credentials present and ratings sync disabled the
\* rating maps and the ratings diff are empty, whatever ratings the two services hold;
\* history sync makes no HistoryGet, HistoryAdd or HistoryRemove call and returns nil
C20_HistoryNeedsRatings ==
    (conf.History /\ ~conf.Ratings /\ ~authless) =>
        /\ user.imdbRatings = {} /\ user.traktRatings = {}
        /\ RatingsDiff = NoDiff
        /\ \A k \in 1..Len(trace) : trace[k].op \notin SyncHistoryOps \cup RatingsOps
        /\ ~StageFailed("syncHistory")
        /\ HistorySkipLogs = {}
        /\ (pc = "done" /\ HistoryStageEntered) =>
            /\ err = NoErr
            /\ trace[Len(trace)].op = "log:sync completed"

\* such a run that returned nil although the source has a rating the mirror has not
C20_Witness ==
    /\ conf.History /\ ~conf.Ratings /\ ~authless
    /\ Succeeded
    /\ \E x \in imdb.ratings : x.Type = TraktItemTypeMovie /\ x.ID \notin KeysOf(trakt.ratings)
    /\ trakt.ratings # {}

====
